---- MODULE Spec2Model ----
(***************************************************************************)
(* buffer-io: BufferWriter / BufferReader over a seekable byte medium.     *)
(*                                                                         *)
(* The medium is std::io::Cursor<Vec<u8>>, the one the crate's own test    *)
(* uses.  Representation of machine integers:                              *)
(*   - u8 (a byte of the stream) is an integer 0..255;                     *)
(*   - u16, u32, i32 and u64 VALUES are bit vectors: functions from        *)
(*     0..w-1 to {0,1}, bit 0 the least significant (TLC integers are too  *)
(*     narrow for 2^32);                                                   *)
(*   - u64 OFFSETS (cursor positions, lengths, counts) are stored as their *)
(*     two's-complement reading, i.e. the integer `x as i64`: a small      *)
(*     n >= 0 is n, and a negative n stands for 2^64 + n (u64::MAX is -1). *)
(*     The casts `as i64` / `as u64` keep the bit pattern, so they keep    *)
(*     this integer; unsigned comparison and addition are U64Gt / U64Add.  *)
(* Three properties of the build and the machine are not fixed by the      *)
(* source and are chosen per call from Builds: whether integer overflow    *)
(* panics (debug) or wraps (release), whether Cursor::read_exact leaves    *)
(* the cursor in place or at the end of the data when it fails (it differs *)
(* between std versions), and how many bytes the machine has for one Vec   *)
(* (a larger reservation ends the process).                                *)
(***************************************************************************)
EXTENDS Integers, Sequences, FiniteSets, TLC

VARIABLES obj, cur, last, nops, pc, inp, out

vars == <<obj, cur, last, nops, pc, inp, out>>

(***************************************************************************)
(* Bounds of the model.                                                    *)
(***************************************************************************)
\* most operations of one writer session
MaxOps == 3
\* a reader's seek is followed while the cursor stays within -MaxPos..MaxPos
MaxPos == 10
\* the memory a machine has for one Vec is 2^bits bytes: a machine with hardly
\* any left, and one with all of a 64-bit address space to give
ScarceBits == 8
AddressBits == 47

(***************************************************************************)
(* Bit vectors.                                                            *)
(***************************************************************************)
RECURSIVE Pow2(_)
Pow2(n) == IF n = 0 THEN 1 ELSE 2 * Pow2(n - 1)

\* the 4*Len(d)-bit value whose hexadecimal digits are d, most significant first
Hex(d) == [i \in 0..(4 * Len(d) - 1) |-> (d[Len(d) - (i \div 4)] \div Pow2(i % 4)) % 2]

\* the w-bit value n, for 0 <= n < 2^31
Bits(n, w) == [i \in 0..(w - 1) |-> IF i <= 30 THEN (n \div Pow2(i)) % 2 ELSE 0]

\* v >> k on an unsigned type
Shr(v, k) == [i \in DOMAIN v |-> IF (i + k) \in DOMAIN v THEN v[i + k] ELSE 0]

\* v >> k on a signed type (the sign bit is shifted in)
Sar(v, k) ==
  LET top == Cardinality(DOMAIN v) - 1
  IN [i \in DOMAIN v |-> IF (i + k) \in DOMAIN v THEN v[i + k] ELSE v[top]]

\* v << k (bits shifted out are lost)
Shl(v, k) == [i \in DOMAIN v |-> IF (i - k) \in DOMAIN v THEN v[i - k] ELSE 0]

\* a | b
BitOr(a, b) == [i \in DOMAIN a |-> IF a[i] = 1 \/ b[i] = 1 THEN 1 ELSE 0]

\* v as u8: the low eight bits, as a byte
AsU8(v) ==
  v[0] + 2 * v[1] + 4 * v[2] + 8 * v[3] + 16 * v[4] + 32 * v[5] + 64 * v[6] + 128 * v[7]

\* b as u16 / u32 / i32 / u64 for a byte b: zero extension to w bits
Widen(b, w) == [i \in 0..(w - 1) |-> IF i < 8 THEN (b \div Pow2(i)) % 2 ELSE 0]

\* lo as u64 | (hi as u64) << 32 for two 32-bit values
Join64(hi, lo) == [i \in 0..63 |-> IF i < 32 THEN lo[i] ELSE hi[i - 32]]

\* the value of v's bits as a natural number (for a v below 2^31)
RECURSIVE BitsNat(_, _)
BitsNat(v, i) ==
  IF i \notin DOMAIN v THEN 0 ELSE v[i] * Pow2(IF i <= 30 THEN i ELSE 0) + BitsNat(v, i + 1)

\* mutant of GeqHex80: the loop test is `v > 0x80`
GtHex80(v) == (\E i \in DOMAIN v : i >= 7 /\ v[i] = 1) /\ v # Bits(128, 32)

\* v >= 0x80 on a u32: some bit above the low seven is set
GeqHex80(v) == \E i \in DOMAIN v : i >= 7 /\ v[i] = 1

(***************************************************************************)
(* u64 offsets in their two's-complement reading.                          *)
(***************************************************************************)
\* a > b on u64
U64Gt(a, b) == IF (a < 0) = (b < 0) THEN a > b ELSE a < 0

\* a + b on u64: the wrapped sum, and whether the true sum exceeds u64::MAX
U64Add(a, b) ==
  [value |-> a + b,
   overflow |-> \/ (a < 0 /\ b < 0)
                \/ ((a < 0) # (b < 0) /\ a + b >= 0)]

\* n divided by 2^k, in steps of at most 2^21
RECURSIVE DivPow2(_, _)
DivPow2(n, k) == IF k <= 21 THEN n \div Pow2(k) ELSE DivPow2(n \div Pow2(21), k - 21)

\* n as usize > isize::MAX, the largest capacity of a Vec: n is 2^63 or more
AboveIsizeMax(n) == n < 0 \/ DivPow2(n, 63) >= 1

\* the builds: overflow_checks (debug) or wrapping arithmetic (release);
\* a failed Cursor::read_exact leaves the cursor at the end of the data or in
\* place; the machine has 2^memory_bits bytes for one Vec
Builds ==
  [overflow_checks : BOOLEAN, eof_to_end : BOOLEAN, memory_bits : {ScarceBits, AddressBits}]

\* a reservation of n bytes is more than the machine has: n > 2^memory_bits
Refuses(build, n) == n >= 1 /\ DivPow2(n - 1, build.memory_bits) >= 1

(***************************************************************************)
(* Results: Result<T, BufferError>, a panic of the call, or the end of the *)
(* process for lack of memory (handle_alloc_error aborts it).              *)
(***************************************************************************)
Ok(v) == [kind |-> "Ok", value |-> v]

Err(k) == [kind |-> k, value |-> <<>>]

IndexOutOfRange(index) == [kind |-> "IndexOutOfRange", value |-> index]

Panic == [kind |-> "Panic", value |-> <<>>]

Abort == [kind |-> "Abort", value |-> <<>>]

IsOk(r) == r.kind = "Ok"

\* the outcome of a call: the medium afterwards and the value returned
Ret(c, r) == [cur |-> c, res |-> r]

(***************************************************************************)
(* UTF-8: a String is the sequence of its code points (Unicode scalar      *)
(* values); as_bytes encodes it and String::from_utf8 validates and        *)
(* decodes.                                                                *)
(***************************************************************************)
Utf8Char(cp) ==
  IF cp < 128 THEN <<cp>>
  ELSE IF cp < 2048 THEN <<192 + (cp \div 64), 128 + (cp % 64)>>
  ELSE IF cp < 65536
    THEN <<224 + (cp \div 4096), 128 + ((cp \div 64) % 64), 128 + (cp % 64)>>
  ELSE <<240 + (cp \div 262144), 128 + ((cp \div 4096) % 64),
         128 + ((cp \div 64) % 64), 128 + (cp % 64)>>

\* str::as_bytes: the encodings of the code points, one after the other
RECURSIVE as_bytes(_)
as_bytes(s) ==
  IF Len(s) = 0 THEN <<>>
  ELSE IF Len(s) = 1 THEN Utf8Char(s[1])
  ELSE as_bytes(SubSeq(s, 1, Len(s) \div 2))
       \o as_bytes(SubSeq(s, (Len(s) \div 2) + 1, Len(s)))

IsCont(b) == b >= 128 /\ b <= 191

\* the length of the UTF-8 sequence a lead byte announces, 0 for no lead byte
Utf8Width(b) ==
  IF b < 128 THEN 1
  ELSE IF b >= 194 /\ b <= 223 THEN 2
  ELSE IF b >= 224 /\ b <= 239 THEN 3
  ELSE IF b >= 240 /\ b <= 244 THEN 4
  ELSE 0

\* the range allowed for the second byte after lead byte b (no overlong form,
\* no surrogate, nothing above U+10FFFF)
Utf8Second(b, x) ==
  IF b = 224 THEN x >= 160 /\ x <= 191
  ELSE IF b = 237 THEN x >= 128 /\ x <= 159
  ELSE IF b = 240 THEN x >= 144 /\ x <= 191
  ELSE IF b = 244 THEN x >= 128 /\ x <= 143
  ELSE IsCont(x)

\* a byte that is no continuation byte, with the continuation bytes after it,
\* is the encoding of one code point
Utf8WellFormed(ch) ==
  /\ Utf8Width(ch[1]) = Len(ch)
  /\ Len(ch) >= 2 => Utf8Second(ch[1], ch[2])

Utf8CodePoint(ch) ==
  IF Len(ch) = 1 THEN ch[1]
  ELSE IF Len(ch) = 2 THEN (ch[1] - 192) * 64 + (ch[2] - 128)
  ELSE IF Len(ch) = 3 THEN (ch[1] - 224) * 4096 + (ch[2] - 128) * 64 + (ch[3] - 128)
  ELSE (ch[1] - 240) * 262144 + (ch[2] - 128) * 4096 + (ch[3] - 128) * 64 + (ch[4] - 128)

\* String::from_utf8: the bytes split at every byte that is no continuation
\* byte; valid when every piece is a well-formed encoding.  The end of a piece
\* is looked for among the four bytes after its first one: a longer piece is
\* no encoding
from_utf8(bytes) ==
  LET n == Len(bytes)
      IsStart(i) == ~IsCont(bytes[i])
      last4(i) == IF i + 4 <= n THEN i + 4 ELSE n
      stop(i) ==
        IF \E j \in (i + 1)..last4(i) : IsStart(j)
          THEN (CHOOSE j \in (i + 1)..last4(i) :
                  IsStart(j) /\ \A k \in (i + 1)..(j - 1) : ~IsStart(k)) - 1
          ELSE last4(i)
      piece(i) == SubSeq(bytes, i, stop(i))
      decoded == [i \in 1..n |-> IF IsStart(i) THEN Utf8CodePoint(piece(i)) ELSE -1]
  IN IF n = 0 THEN [ok |-> TRUE, s |-> <<>>]
     ELSE IF IsCont(bytes[1]) \/ \E i \in 1..n : IsStart(i) /\ ~Utf8WellFormed(piece(i))
       THEN [ok |-> FALSE, s |-> <<>>]
     ELSE [ok |-> TRUE, s |-> SelectSeq(decoded, LAMBDA x : x # -1)]

(***************************************************************************)
(* std::io::Cursor<Vec<u8>>: the medium.                                   *)
(***************************************************************************)
\* Cursor::new(vec): the Vec holds data and has room for cap bytes
Cursor(data, cap) == [data |-> data, pos |-> 0, cap |-> cap]

\* the capacity Vec<u8>::reserve and try_reserve ask the allocator for when
\* a Vec of capacity cap needs room for required bytes (amortized growth):
\* max(2 * cap, required), and no less than the 8 of the smallest Vec<u8>
Grown(cap, required) ==
  LET twice == IF 2 * cap > required THEN 2 * cap ELSE required
  IN IF twice < 8 THEN 8 ELSE twice

\* mutant of CursorSeek: a target past the end is clamped to the end
CursorSeekClamped(c, from, n) ==
  LET base == IF from = "Start" THEN 0 ELSE IF from = "Current" THEN c.pos ELSE Len(c.data)
      t == base + n
      fits == IF base >= 0 THEN t >= 0 ELSE t < 0
      to == IF U64Gt(t, Len(c.data)) THEN Len(c.data) ELSE t
  IN IF from = "Start" \/ fits THEN [cur |-> [c EXCEPT !.pos = to], ok |-> TRUE, value |-> to]
     ELSE [cur |-> c, ok |-> FALSE, value |-> 0]

\* Seek::seek: Start(n) always moves; Current(n) and End(n) add n to the base
\* and fail when the sum is negative or exceeds u64::MAX
CursorSeek(c, from, n) ==
  IF from = "Start" THEN [cur |-> [c EXCEPT !.pos = n], ok |-> TRUE, value |-> n]
  ELSE
    LET base == IF from = "Current" THEN c.pos ELSE Len(c.data)
        t == base + n
        fits == IF base >= 0 THEN t >= 0 ELSE t < 0
    IN IF fits THEN [cur |-> [c EXCEPT !.pos = t], ok |-> TRUE, value |-> t]
       ELSE [cur |-> c, ok |-> FALSE, value |-> 0]

\* the bytes of buf stored at the cursor: a position past the end zero-fills
\* the gap; the bytes overwrite or extend; the cursor advances by their number
CursorStore(c, buf) ==
  LET n == Len(buf)
      newlen == IF c.pos + n > Len(c.data) THEN c.pos + n ELSE Len(c.data)
      data == [i \in 1..newlen |->
                 IF i > c.pos /\ i <= c.pos + n THEN buf[i - c.pos]
                 ELSE IF i <= Len(c.data) THEN c.data[i]
                 ELSE 0]
  IN [cur |-> [c EXCEPT !.data = data, !.pos = c.pos + n], kind |-> "Ok", n |-> n]

\* Write::write (64-bit target): the Vec first makes room up to
\* desired_cap = pos.saturating_add(buf.len()) unless its capacity has it
\* already: Vec::reserve asks for Grown(capacity, desired_cap) bytes; a
\* request above isize::MAX panics (capacity overflow), one the machine has
\* no memory for ends the process; then the bytes are stored
CursorWrite(c, buf, build) ==
  LET desired_cap == c.pos + Len(buf)
      cap == Grown(c.cap, desired_cap)
  IN IF AboveIsizeMax(c.pos) \/ AboveIsizeMax(desired_cap)
       THEN [cur |-> c, kind |-> "Panic", n |-> 0]
     ELSE IF desired_cap <= c.cap THEN CursorStore(c, buf)
     ELSE IF AboveIsizeMax(cap) THEN [cur |-> c, kind |-> "Panic", n |-> 0]
     ELSE IF Refuses(build, cap) THEN [cur |-> c, kind |-> "Abort", n |-> 0]
     ELSE CursorStore([c EXCEPT !.cap = cap], buf)

\* Read::read_exact: n bytes from the cursor, or an error when fewer remain
CursorReadExact(c, n, build) ==
  LET len == Len(c.data)
      avail == IF c.pos < 0 \/ c.pos > len THEN 0 ELSE len - c.pos
  IN IF n <= avail
       THEN [cur |-> [c EXCEPT !.pos = c.pos + n], ok |-> TRUE,
             buffer |-> SubSeq(c.data, c.pos + 1, c.pos + n)]
       ELSE [cur |-> [c EXCEPT !.pos = IF build.eof_to_end THEN len ELSE c.pos],
             ok |-> FALSE, buffer |-> <<>>]

\* the capacity of an empty Vec after try_reserve(n)
Reserved(n) == IF n = 0 THEN 0 ELSE Grown(0, n)

\* Read::read_to_end: the receiving Vec, empty, reserves room for everything
\* from the cursor to the end (try_reserve: an error when the machine has no
\* memory for it, and nothing is read), the bytes are copied and the cursor
\* advances
CursorReadToEnd(c, build) ==
  LET len == Len(c.data)
      from == IF c.pos < 0 \/ c.pos > len THEN len ELSE c.pos
  IN IF Refuses(build, Reserved(len - from))
       THEN [cur |-> c, ok |-> FALSE, bytes |-> <<>>]
     ELSE [cur |-> [c EXCEPT !.pos = c.pos + (len - from)], ok |-> TRUE,
           bytes |-> SubSeq(c.data, from + 1, len)]

(***************************************************************************)
(* BufferWriter.  Every operation takes the medium and returns Ret(medium  *)
(* afterwards, result).  Bind is the `?` operator: an outcome that is not  *)
(* Ok ends the call (an Err is returned, a panic unwinds, an abort ends    *)
(* the process).  The operations that write take the build.                *)
(***************************************************************************)
Bind(o, F(_)) == IF IsOk(o.res) THEN F(o) ELSE o

\* `position as u64`: the bit pattern is kept, so a negative position becomes
\* an offset of 2^64 + position
AsU64(position) == position

\* `old_pos as i64`, `offset as i64`
AsI64(offset) == offset

\* .map(|o| o).map_err(|_e| BufferError::IndexOutOfRange { index: position })
SeekResult(s, position) ==
  IF s.ok THEN Ret(s.cur, Ok(s.value)) ELSE Ret(s.cur, IndexOutOfRange(position))

BufferWriter_seek(c, position, origin) ==
  CASE origin = "Begin" -> SeekResult(CursorSeek(c, "Start", AsU64(position)), position)
    [] origin = "Current" -> SeekResult(CursorSeek(c, "Current", position), position)
    [] origin = "End" -> SeekResult(CursorSeek(c, "End", position), position)

BufferWriter_position(c) == BufferWriter_seek(c, 0, "Current")

BufferWriter_len(c) ==
  Bind(BufferWriter_position(c), LAMBDA old_pos :
    Bind(BufferWriter_seek(old_pos.cur, 0, "End"), LAMBDA len :
      IF old_pos.res.value # len.res.value
        THEN Bind(BufferWriter_seek(len.cur, AsI64(old_pos.res.value), "Begin"),
                  LAMBDA r : Ret(r.cur, Ok(len.res.value)))
        ELSE Ret(len.cur, Ok(len.res.value))))

\* self.writer.read_to_end(&mut out).unwrap(); Ok(out): the unwrap panics on
\* the error of read_to_end
ReadToEnd(r) == IF r.ok THEN Ret(r.cur, Ok(r.bytes)) ELSE Ret(r.cur, Panic)

\* mutant of to_vec: the content is read from the cursor, without the seek to 0
to_vec_FromCursor(c, build) == ReadToEnd(CursorReadToEnd(c, build))

to_vec(c, build) ==
  Bind(BufferWriter_seek(c, 0, "Begin"),
       LAMBDA s : ReadToEnd(CursorReadToEnd(s.cur, build)))

\* self.writer.write(data).map(|o| o as u64).map_err(|_e| BufferError::IOFailure)
WriteResult(w) ==
  CASE w.kind = "Panic" -> Ret(w.cur, Panic)
    [] w.kind = "Abort" -> Ret(w.cur, Abort)
    [] w.kind = "Ok" -> Ret(w.cur, Ok(w.n))

write_u32(c, value, build) ==
  WriteResult(CursorWrite(c, <<AsU8(Shr(value, 0)), AsU8(Shr(value, 8)),
                               AsU8(Shr(value, 16)), AsU8(Shr(value, 24))>>, build))

write_u64(c, value, build) ==
  WriteResult(CursorWrite(c, <<AsU8(Shr(value, 0)), AsU8(Shr(value, 8)),
                               AsU8(Shr(value, 16)), AsU8(Shr(value, 24)),
                               AsU8(Shr(value, 32)), AsU8(Shr(value, 40)),
                               AsU8(Shr(value, 48)), AsU8(Shr(value, 56))>>, build))

write_i32(c, value, build) ==
  WriteResult(CursorWrite(c, <<AsU8(Sar(value, 0)), AsU8(Sar(value, 8)),
                               AsU8(Sar(value, 16)), AsU8(Sar(value, 24))>>, build))

write_u16(c, value, build) ==
  WriteResult(CursorWrite(c, <<AsU8(Shr(value, 0)), AsU8(Shr(value, 8))>>, build))

write_u8(c, value, build) == WriteResult(CursorWrite(c, <<value>>, build))

\* the loop of write_7bit_int on v = value as u32
RECURSIVE write_7bit_loop(_, _, _)
write_7bit_loop(c, v, build) ==
  IF GeqHex80(v)
    THEN Bind(write_u8(c, AsU8(BitOr(v, Bits(128, 32))), build),
              LAMBDA w : write_7bit_loop(w.cur, Shr(v, 7), build))
    ELSE Bind(write_u8(c, AsU8(v), build), LAMBDA w : Ret(w.cur, Ok(<<>>)))

write_7bit_int(c, value, build) == write_7bit_loop(c, value, build)

\* `bytes.len() as i32`: the low 32 bits of the length, so a length of 2^31
\* or more gives a negative or a truncated prefix
AsI32(n) == [i \in 0..31 |-> DivPow2(n, i) % 2]

\* mutant of write_string: the prefix counts code points, not bytes
write_string_CharCount(c, value, build) ==
  Bind(write_7bit_int(c, AsI32(Len(value)), build),
       LAMBDA n : WriteResult(CursorWrite(n.cur, as_bytes(value), build)))

write_string(c, value, build) ==
  Bind(write_7bit_int(c, AsI32(Len(as_bytes(value))), build),
       LAMBDA n : WriteResult(CursorWrite(n.cur, as_bytes(value), build)))

write_bytes(c, value, build) == WriteResult(CursorWrite(c, value, build))

(***************************************************************************)
(* BufferReader.  The operations that add offsets take the build.          *)
(***************************************************************************)
BufferReader_seek(c, position, origin) ==
  CASE origin = "Begin" -> SeekResult(CursorSeek(c, "Start", AsU64(position)), position)
    [] origin = "Current" -> SeekResult(CursorSeek(c, "Current", position), position)
    [] origin = "End" -> SeekResult(CursorSeek(c, "End", position), position)

BufferReader_position(c) == BufferReader_seek(c, 0, "Current")

BufferReader_len(c) ==
  Bind(BufferReader_position(c), LAMBDA old_pos :
    Bind(BufferReader_seek(old_pos.cur, 0, "End"), LAMBDA len :
      IF old_pos.res.value # len.res.value
        THEN Bind(BufferReader_seek(len.cur, AsI64(old_pos.res.value), "Begin"),
                  LAMBDA r : Ret(r.cur, Ok(len.res.value)))
        ELSE Ret(len.cur, Ok(len.res.value))))

\* `if self.position()? + size > self.len()? { return Err(EndOfStream) }`:
\* Ok when the read may go on, else the outcome the call ends with
BoundsCheck(c, size, build) ==
  Bind(BufferReader_position(c), LAMBDA p :
    IF U64Add(p.res.value, size).overflow /\ build.overflow_checks
      THEN Ret(p.cur, Panic)
      ELSE Bind(BufferReader_len(p.cur), LAMBDA l :
             IF U64Gt(U64Add(p.res.value, size).value, l.res.value)
               THEN Ret(l.cur, Err("EndOfStream"))
               ELSE Ret(l.cur, Ok(TRUE))))

\* self.reader.read_exact(&mut buffer).map_err(|e| ReadFailure { error: e })
ReadResult(r) ==
  IF r.ok THEN Ret(r.cur, Ok(r.buffer)) ELSE Ret(r.cur, Err("ReadFailure"))

\* the bounds check, then read_exact on a buffer of size bytes
ReadExact(c, size, build) ==
  Bind(BoundsCheck(c, size, build),
       LAMBDA k : ReadResult(CursorReadExact(k.cur, size, build)))

\* the assembly of each fixed-width value from the bytes read
DecodeU32(buffer) ==
  BitOr(BitOr(Shl(Widen(buffer[1], 32), 0), Shl(Widen(buffer[2], 32), 8)),
        BitOr(Shl(Widen(buffer[3], 32), 16), Shl(Widen(buffer[4], 32), 24)))

DecodeU64(buffer) ==
  Join64(BitOr(BitOr(Widen(buffer[5], 32), Shl(Widen(buffer[6], 32), 8)),
               BitOr(Shl(Widen(buffer[7], 32), 16), Shl(Widen(buffer[8], 32), 24))),
         BitOr(BitOr(Widen(buffer[1], 32), Shl(Widen(buffer[2], 32), 8)),
               BitOr(Shl(Widen(buffer[3], 32), 16), Shl(Widen(buffer[4], 32), 24))))

DecodeI32(buffer) ==
  BitOr(BitOr(Shl(Widen(buffer[1], 32), 0), Shl(Widen(buffer[2], 32), 8)),
        BitOr(Shl(Widen(buffer[3], 32), 16), Shl(Widen(buffer[4], 32), 24)))

DecodeU16(buffer) == BitOr(Widen(buffer[1], 16), Widen(buffer[2], 16))

read_u32(c, build) ==
  Bind(ReadExact(c, 4, build), LAMBDA r : Ret(r.cur, Ok(DecodeU32(r.res.value))))

read_u64(c, build) ==
  Bind(ReadExact(c, 8, build), LAMBDA r : Ret(r.cur, Ok(DecodeU64(r.res.value))))

read_i32(c, build) ==
  Bind(ReadExact(c, 4, build), LAMBDA r : Ret(r.cur, Ok(DecodeI32(r.res.value))))

read_u16(c, build) ==
  Bind(ReadExact(c, 2, build), LAMBDA r : Ret(r.cur, Ok(DecodeU16(r.res.value))))

read_u8(c, build) ==
  Bind(ReadExact(c, 1, build), LAMBDA r : Ret(r.cur, Ok(r.res.value[1])))

\* mutant of CorruptShift: the guard is one byte late
CorruptShiftLate == 6 * 7

\* `shift == 5 * 7`: the shift at which read_7bit_int gives up
CorruptShift == 5 * 7

\* the loop of read_7bit_int; b & 0x7F is b % 128, b & 0x80 != 0 is b >= 128
RECURSIVE read_7bit_loop(_, _, _, _)
read_7bit_loop(c, count, shift, build) ==
  IF shift = CorruptShift THEN Ret(c, Err("IOFailure"))
  ELSE Bind(read_u8(c, build), LAMBDA b :
         IF b.res.value >= 128
           THEN read_7bit_loop(b.cur,
                               BitOr(count, Shl(Widen(b.res.value % 128, 32), shift)),
                               shift + 7, build)
           ELSE Ret(b.cur, Ok(BitOr(count, Shl(Widen(b.res.value % 128, 32), shift)))))

read_7bit_int(c, build) == read_7bit_loop(c, Bits(0, 32), 0, build)

read_bytes(c, count, build) ==
  Bind(BoundsCheck(c, count, build), LAMBDA k :
    \* vec![0u8; count as usize] panics (capacity overflow) above isize::MAX
    \* and ends the process when the machine has no memory for count bytes
    IF AboveIsizeMax(count) THEN Ret(k.cur, Panic)
    ELSE IF Refuses(build, count) THEN Ret(k.cur, Abort)
    ELSE ReadResult(CursorReadExact(k.cur, count, build)))

\* String::from_utf8(chars).map(|o| o).map_err(|_e| BufferError::IOFailure)
Utf8Result(c, s) == IF s.ok THEN Ret(c, Ok(s.s)) ELSE Ret(c, Err("IOFailure"))

read_string(c, build) ==
  Bind(read_7bit_int(c, build), LAMBDA string_length :
    IF string_length.res.value[31] = 1 THEN Ret(string_length.cur, Err("IOFailure"))
    ELSE IF string_length.res.value = Bits(0, 32) THEN Ret(string_length.cur, Ok(<<>>))
    ELSE Bind(read_bytes(string_length.cur, BitsNat(string_length.res.value, 0), build),
              LAMBDA chars : Utf8Result(chars.cur, from_utf8(chars.res.value))))

\* mutant of read_bytes_at: the cursor is not moved back after the read
read_bytes_at_NoRestore(c, offset, count, build) ==
  IF U64Add(offset, count).overflow /\ build.overflow_checks THEN Ret(c, Panic)
  ELSE Bind(BufferReader_len(c), LAMBDA l :
    IF U64Gt(U64Add(offset, count).value, l.res.value)
      THEN Ret(l.cur, Err("EndOfStream"))
      ELSE Bind(BufferReader_seek(l.cur, AsI64(offset), "Begin"), LAMBDA s :
             read_bytes(s.cur, count, build)))

read_bytes_at(c, offset, count, build) ==
  IF U64Add(offset, count).overflow /\ build.overflow_checks THEN Ret(c, Panic)
  ELSE Bind(BufferReader_len(c), LAMBDA l :
    IF U64Gt(U64Add(offset, count).value, l.res.value)
      THEN Ret(l.cur, Err("EndOfStream"))
      ELSE Bind(BufferReader_position(l.cur), LAMBDA current_pos :
             Bind(BufferReader_seek(current_pos.cur, AsI64(offset), "Begin"), LAMBDA s :
               Bind(read_bytes(s.cur, count, build), LAMBDA buffer :
                 Bind(BufferReader_seek(buffer.cur, AsI64(current_pos.res.value), "Begin"),
                      LAMBDA b : Ret(b.cur, Ok(buffer.res.value)))))))

(***************************************************************************)
(* The caller.  A program owns one wrapper: a BufferWriter over an empty   *)
(* Cursor, or a BufferReader over a Cursor holding a stream it was given.  *)
(* last records the latest call: its name, arguments, the medium before    *)
(* it and its result.  A panic or an abort ends the program.               *)
(***************************************************************************)
SeekOrigin == {"Begin", "Current", "End"}

\* the inputs of the free-running session
SeekOffsets == {-1, 0, 2}

\* a size the machine with scarce memory does not have and the other one has
Far == Pow2(ScarceBits) + 1

\* a size both machines have, and twice that size the scarce one does not
Near == Pow2(ScarceBits) - 6

\* offsets from the beginning that lie far from the data: 2^64 - Far, and for
\* a writer Far and Near
ReaderFarOffsets == {-Far}

WriterFarOffsets == {-Far, Far, Near}

WriteU8s == {128}

WriteU16s == {Hex(<<10, 11, 12, 13>>)}

WriteU32s == {Hex(<<8, 0, 8, 0, 8, 0, 8, 0>>)}

WriteU64s == {Hex(<<0, 1, 0, 2, 0, 3, 0, 4, 0, 5, 0, 6, 0, 7, 0, 8>>)}

WriteI32s == {Hex(<<15, 15, 15, 15, 15, 15, 15, 14>>)}

Write7Bits == {Bits(300, 32)}

WriteStrings == {<<104, 233>>}

WriteBytes == {<<255, 255>>}

\* u64::MAX is -1
ReadCounts == {0, 1, 3, -1, Far}

AtOffsets == {0, 2, -1, -Far}

AtCounts == {0, 1, 2, -1, Far}

\* the streams a reader is given: empty; three plain bytes; five continuation
\* bytes and one more; the 7-bit integer 300 and two bytes; the string "e-acute"
\* followed by the 7-bit integer 0xFFFFFFFF; a string that is not UTF-8
Streams ==
  { <<>>,
    <<1, 2, 3>>,
    <<128, 128, 128, 128, 128, 1>>,
    <<172, 2, 65, 66>>,
    <<2, 195, 169, 255, 255, 255, 255, 15>>,
    <<1, 255>> }

Alive == last.res.kind \notin {"Panic", "Abort"}

Call(op, args, o) ==
  /\ cur' = o.cur
  /\ last' = [op |-> op, args |-> args, before |-> cur, res |-> o.res]

WriterCall(op, args, o) ==
  /\ obj = "writer" /\ pc = "free" /\ Alive
  /\ nops < MaxOps
  /\ nops' = nops + 1
  /\ Call(op, args, o)
  /\ UNCHANGED <<obj, pc, inp, out>>

ReaderCall(op, args, o) ==
  /\ obj = "reader" /\ pc = "free" /\ Alive
  /\ Call(op, args, o)
  /\ UNCHANGED <<obj, nops, pc, inp, out>>

WriterSeek ==
  \/ \E position \in SeekOffsets, origin \in SeekOrigin :
       WriterCall("seek", <<position, origin>>, BufferWriter_seek(cur, position, origin))
  \/ \E position \in WriterFarOffsets :
       WriterCall("seek", <<position, "Begin">>, BufferWriter_seek(cur, position, "Begin"))

WriterPosition == WriterCall("position", <<>>, BufferWriter_position(cur))

WriterLen == WriterCall("len", <<>>, BufferWriter_len(cur))

ToVec == \E build \in Builds : WriterCall("to_vec", <<>>, to_vec(cur, build))

WriteU8 ==
  \E v \in WriteU8s, build \in Builds :
    WriterCall("write_u8", <<v>>, write_u8(cur, v, build))

WriteU16 ==
  \E v \in WriteU16s, build \in Builds :
    WriterCall("write_u16", <<v>>, write_u16(cur, v, build))

WriteU32 ==
  \E v \in WriteU32s, build \in Builds :
    WriterCall("write_u32", <<v>>, write_u32(cur, v, build))

WriteU64 ==
  \E v \in WriteU64s, build \in Builds :
    WriterCall("write_u64", <<v>>, write_u64(cur, v, build))

WriteI32 ==
  \E v \in WriteI32s, build \in Builds :
    WriterCall("write_i32", <<v>>, write_i32(cur, v, build))

Write7BitInt ==
  \E v \in Write7Bits, build \in Builds :
    WriterCall("write_7bit_int", <<v>>, write_7bit_int(cur, v, build))

WriteString ==
  \E v \in WriteStrings, build \in Builds :
    WriterCall("write_string", <<v>>, write_string(cur, v, build))

WriteBytesOp ==
  \E v \in WriteBytes, build \in Builds :
    WriterCall("write_bytes", <<v>>, write_bytes(cur, v, build))

ReaderSeek ==
  \/ \E position \in SeekOffsets, origin \in SeekOrigin :
       LET o == BufferReader_seek(cur, position, origin)
       IN /\ o.cur.pos \in (-MaxPos)..MaxPos
          /\ ReaderCall("seek", <<position, origin>>, o)
  \/ \E position \in ReaderFarOffsets :
       ReaderCall("seek", <<position, "Begin">>, BufferReader_seek(cur, position, "Begin"))

ReaderPosition == ReaderCall("position", <<>>, BufferReader_position(cur))

ReaderLen == ReaderCall("len", <<>>, BufferReader_len(cur))

ReadU8 == \E build \in Builds : ReaderCall("read_u8", <<>>, read_u8(cur, build))

ReadU16 == \E build \in Builds : ReaderCall("read_u16", <<>>, read_u16(cur, build))

ReadU32 == \E build \in Builds : ReaderCall("read_u32", <<>>, read_u32(cur, build))

ReadU64 == \E build \in Builds : ReaderCall("read_u64", <<>>, read_u64(cur, build))

ReadI32 == \E build \in Builds : ReaderCall("read_i32", <<>>, read_i32(cur, build))

Read7BitInt ==
  \E build \in Builds : ReaderCall("read_7bit_int", <<>>, read_7bit_int(cur, build))

ReadString ==
  \E build \in Builds : ReaderCall("read_string", <<>>, read_string(cur, build))

ReadBytes ==
  \E count \in ReadCounts, build \in Builds :
    ReaderCall("read_bytes", <<count>>, read_bytes(cur, count, build))

ReadBytesAt ==
  \E offset \in AtOffsets, count \in AtCounts, build \in Builds :
    ReaderCall("read_bytes_at", <<offset, count>>, read_bytes_at(cur, offset, count, build))

NoCall(c) == [op |-> "new", args |-> <<>>, before |-> c, res |-> Ok(<<>>)]

Init ==
  /\ \/ obj = "writer" /\ cur = Cursor(<<>>, 0)
     \/ obj = "reader" /\ cur \in {Cursor(s, Len(s)) : s \in Streams}
  /\ last = NoCall(cur)
  /\ nops = 0
  /\ pc = "free"
  /\ inp = <<>>
  /\ out = <<>>

Next ==
  \/ WriterSeek \/ WriterPosition \/ WriterLen \/ ToVec
  \/ WriteU8 \/ WriteU16 \/ WriteU32 \/ WriteU64 \/ WriteI32
  \/ Write7BitInt \/ WriteString \/ WriteBytesOp
  \/ ReaderSeek \/ ReaderPosition \/ ReaderLen
  \/ ReadU8 \/ ReadU16 \/ ReadU32 \/ ReadU64 \/ ReadI32
  \/ Read7BitInt \/ ReadString \/ ReadBytes \/ ReadBytesAt

Spec == Init /\ [][Next]_vars

(***************************************************************************)
(* A round trip: a writer writes a prefix and then one value, the bytes    *)
(* are materialized, and a reader over them seeks to where the value was   *)
(* written and reads it back with the matching operation.  A call before   *)
(* the read that does not return Ok ends the round trip.                   *)
(***************************************************************************)
U8Values == {0, 1, 127, 128, 255}

U16Values ==
  { Hex(<<0, 0, 0, 0>>), Hex(<<0, 0, 15, 15>>), Hex(<<0, 1, 0, 0>>),
    Hex(<<10, 11, 12, 13>>), Hex(<<15, 15, 15, 15>>) }

U32Values ==
  { Bits(0, 32), Bits(255, 32), Bits(9001, 32), Hex(<<1, 2, 3, 4, 5, 6, 7, 8>>),
    Hex(<<8, 0, 0, 0, 0, 0, 0, 0>>), Hex(<<15, 15, 15, 15, 15, 15, 15, 15>>) }

I32Values ==
  { Bits(0, 32), Bits(1, 32), Bits(2147483647, 32), Hex(<<1, 2, 3, 4, 5, 6, 7, 8>>),
    Hex(<<8, 0, 0, 0, 0, 0, 0, 0>>), Hex(<<15, 15, 15, 15, 15, 15, 15, 15>>) }

U64Values ==
  { Bits(0, 64), Bits(255, 64),
    Hex(<<0, 1, 0, 2, 0, 3, 0, 4, 0, 5, 0, 6, 0, 7, 0, 8>>),
    Hex(<<0, 0, 0, 0, 0, 0, 0, 0, 15, 15, 15, 15, 15, 15, 15, 15>>),
    Hex(<<15, 15, 15, 15, 15, 15, 15, 15, 0, 0, 0, 0, 0, 0, 0, 0>>),
    Hex(<<8, 0, 0, 0, 0, 0, 0, 0, 0, 0, 0, 0, 0, 0, 0, 0>>),
    Hex(<<15, 15, 15, 15, 15, 15, 15, 15, 15, 15, 15, 15, 15, 15, 15, 15>>) }

\* the group boundaries 2^7, 2^14, 2^21, 2^28 from both sides, and the values
\* with bit 31 set
VarintValues ==
  { Bits(n, 32) : n \in { 0, 1, 127, 128, 300, 16383, 16384, 2097151, 2097152,
                          268435455, 268435456, 2147483647 } }
  \cup { Hex(<<8, 0, 0, 0, 0, 0, 0, 0>>), Hex(<<15, 15, 15, 15, 15, 15, 15, 15>>) }

\* "", "A", "Hello World!", e-acute, the euro sign, an emoji, a mix of one- to
\* four-byte code points, 130 ASCII letters, 100 two-byte letters, and a
\* string the machine with scarce memory has no room for
StringValues ==
  { <<>>, <<65>>, <<72, 101, 108, 108, 111, 32, 87, 111, 114, 108, 100, 33>>,
    <<233>>, <<8364>>, <<128512>>, <<104, 233, 8364, 128512, 0>>,
    [i \in 1..130 |-> 97], [i \in 1..100 |-> 233], [i \in 1..Far |-> 97] }

Prefixes == {<<>>, <<255>>, <<1, 2, 3>>}

RTInputs ==
  [ty : {"u8"}, v : U8Values, pre : Prefixes]
  \cup [ty : {"u16"}, v : U16Values, pre : Prefixes]
  \cup [ty : {"u32"}, v : U32Values, pre : Prefixes]
  \cup [ty : {"u64"}, v : U64Values, pre : Prefixes]
  \cup [ty : {"i32"}, v : I32Values, pre : Prefixes]
  \cup [ty : {"7bit"}, v : VarintValues, pre : Prefixes]
  \cup [ty : {"string"}, v : StringValues, pre : Prefixes]

WriteValue(ty, c, v, build) ==
  CASE ty = "u8" -> write_u8(c, v, build)
    [] ty = "u16" -> write_u16(c, v, build)
    [] ty = "u32" -> write_u32(c, v, build)
    [] ty = "u64" -> write_u64(c, v, build)
    [] ty = "i32" -> write_i32(c, v, build)
    [] ty = "7bit" -> write_7bit_int(c, v, build)
    [] ty = "string" -> write_string(c, v, build)

\* the next step of the round trip after a call
Then(o, next) == IF IsOk(o.res) THEN next ELSE "rt_ended"

ReadValue(ty, c, build) ==
  CASE ty = "u8" -> read_u8(c, build)
    [] ty = "u16" -> read_u16(c, build)
    [] ty = "u32" -> read_u32(c, build)
    [] ty = "u64" -> read_u64(c, build)
    [] ty = "i32" -> read_i32(c, build)
    [] ty = "7bit" -> read_7bit_int(c, build)
    [] ty = "string" -> read_string(c, build)

InitRT ==
  /\ obj = "writer"
  /\ cur = Cursor(<<>>, 0)
  /\ last = NoCall(cur)
  /\ nops = 0
  /\ pc = "rt_prefix"
  /\ inp \in RTInputs
  /\ out = [data |-> <<>>, res |-> Ok(<<>>)]

RTPrefix ==
  /\ pc = "rt_prefix"
  /\ \E build \in Builds :
       /\ Call("write_bytes", <<inp.pre>>, write_bytes(cur, inp.pre, build))
       /\ pc' = Then(write_bytes(cur, inp.pre, build), "rt_write")
  /\ UNCHANGED <<obj, nops, inp, out>>

RTWrite ==
  /\ pc = "rt_write"
  /\ \E build \in Builds :
       /\ Call("write", <<inp.v>>, WriteValue(inp.ty, cur, inp.v, build))
       /\ pc' = Then(WriteValue(inp.ty, cur, inp.v, build), "rt_to_vec")
  /\ UNCHANGED <<obj, nops, inp, out>>

RTToVec ==
  /\ pc = "rt_to_vec"
  /\ \E build \in Builds :
       /\ Call("to_vec", <<>>, to_vec(cur, build))
       /\ out' = [out EXCEPT !.data = to_vec(cur, build).res.value]
       /\ pc' = Then(to_vec(cur, build), "rt_new")
  /\ UNCHANGED <<obj, nops, inp>>

RTNewReader ==
  /\ pc = "rt_new"
  /\ obj' = "reader"
  /\ cur' = Cursor(out.data, Reserved(Len(out.data)))
  /\ last' = NoCall(Cursor(out.data, Reserved(Len(out.data))))
  /\ pc' = "rt_seek"
  /\ UNCHANGED <<nops, inp, out>>

RTSeek ==
  /\ pc = "rt_seek"
  /\ Call("seek", <<Len(inp.pre), "Begin">>, BufferReader_seek(cur, Len(inp.pre), "Begin"))
  /\ pc' = Then(BufferReader_seek(cur, Len(inp.pre), "Begin"), "rt_read")
  /\ UNCHANGED <<obj, nops, inp, out>>

RTRead ==
  /\ pc = "rt_read"
  /\ \E build \in Builds :
       /\ Call("read", <<>>, ReadValue(inp.ty, cur, build))
       /\ out' = [out EXCEPT !.res = ReadValue(inp.ty, cur, build).res]
  /\ pc' = "rt_done"
  /\ UNCHANGED <<obj, nops, inp>>

NextRT == RTPrefix \/ RTWrite \/ RTToVec \/ RTNewReader \/ RTSeek \/ RTRead

SpecRoundTrip == InitRT /\ [][NextRT]_vars

(***************************************************************************)
(* tests::it_works, for any three u32 values a, b, c and string s: write   *)
(* a, b and s, seek to 0, overwrite with c, materialize, and read u32,     *)
(* u32, string from a fresh reader.  Every result is unwrapped.  Before    *)
(* the content is materialized the cursor is moved by one more seek, at,   *)
(* which is seek(0, Current) when the cursor is to stay as in the test.    *)
(***************************************************************************)
IWValues == {Bits(9001, 32), Bits(9002, 32), Bits(9003, 32)}

\* "Hello World!", "", e-acute, and a string the machine with scarce memory
\* has no room for
IWStrings ==
  { <<72, 101, 108, 108, 111, 32, 87, 111, 114, 108, 100, 33>>, <<>>, <<233>>,
    [i \in 1..Far |-> 97] }

\* where the cursor is put before to_vec: left at 4, the beginning, inside
\* the first value, the end, beyond the end, and offset 2^64 - 1
IWCursors ==
  { <<0, "Current">>, <<0, "Begin">>, <<-2, "Current">>, <<0, "End">>, <<5, "End">>,
    <<-1, "Begin">> }

\* .unwrap(): the next statement, or the end of the test by a panic (or by
\* the end of the process)
Unwrap(o, next) == IF IsOk(o.res) THEN next ELSE "iw_panicked"

InitIW ==
  /\ obj = "writer"
  /\ cur = Cursor(<<>>, 0)
  /\ last = NoCall(cur)
  /\ nops = 0
  /\ pc = "iw_write_a"
  /\ inp \in [a : IWValues, b : IWValues, c : IWValues, s : IWStrings, at : IWCursors]
  /\ out = [snap |-> <<>>, data |-> <<>>, r1 |-> Ok(<<>>), r2 |-> Ok(<<>>), r3 |-> Ok(<<>>)]

IWWriteA ==
  /\ pc = "iw_write_a"
  /\ \E build \in Builds :
       /\ Call("write_u32", <<inp.a>>, write_u32(cur, inp.a, build))
       /\ pc' = Unwrap(write_u32(cur, inp.a, build), "iw_write_b")
  /\ UNCHANGED <<obj, nops, inp, out>>

IWWriteB ==
  /\ pc = "iw_write_b"
  /\ \E build \in Builds :
       /\ Call("write_u32", <<inp.b>>, write_u32(cur, inp.b, build))
       /\ pc' = Unwrap(write_u32(cur, inp.b, build), "iw_write_s")
  /\ UNCHANGED <<obj, nops, inp, out>>

IWWriteS ==
  /\ pc = "iw_write_s"
  /\ \E build \in Builds :
       /\ Call("write_string", <<inp.s>>, write_string(cur, inp.s, build))
       /\ pc' = Unwrap(write_string(cur, inp.s, build), "iw_seek")
  /\ UNCHANGED <<obj, nops, inp, out>>

\* out.snap keeps the content as it is before the overwrite
IWSeek ==
  /\ pc = "iw_seek"
  /\ Call("seek", <<0, "Begin">>, BufferWriter_seek(cur, 0, "Begin"))
  /\ out' = [out EXCEPT !.snap = cur.data]
  /\ pc' = Unwrap(BufferWriter_seek(cur, 0, "Begin"), "iw_overwrite")
  /\ UNCHANGED <<obj, nops, inp>>

IWOverwrite ==
  /\ pc = "iw_overwrite"
  /\ \E build \in Builds :
       /\ Call("write_u32", <<inp.c>>, write_u32(cur, inp.c, build))
       /\ pc' = Unwrap(write_u32(cur, inp.c, build), "iw_move")
  /\ UNCHANGED <<obj, nops, inp, out>>

IWMove ==
  /\ pc = "iw_move"
  /\ Call("seek", inp.at, BufferWriter_seek(cur, inp.at[1], inp.at[2]))
  /\ pc' = Unwrap(BufferWriter_seek(cur, inp.at[1], inp.at[2]), "iw_to_vec")
  /\ UNCHANGED <<obj, nops, inp, out>>

IWToVec ==
  /\ pc = "iw_to_vec"
  /\ \E build \in Builds :
       /\ Call("to_vec", <<>>, to_vec(cur, build))
       /\ out' = [out EXCEPT !.data = to_vec(cur, build).res.value]
       /\ pc' = Unwrap(to_vec(cur, build), "iw_new")
  /\ UNCHANGED <<obj, nops, inp>>

IWNewReader ==
  /\ pc = "iw_new"
  /\ obj' = "reader"
  /\ cur' = Cursor(out.data, Reserved(Len(out.data)))
  /\ pc' = "iw_read_1"
  /\ UNCHANGED <<last, nops, inp, out>>

IWRead1 ==
  /\ pc = "iw_read_1"
  /\ \E build \in Builds :
       /\ Call("read_u32", <<>>, read_u32(cur, build))
       /\ out' = [out EXCEPT !.r1 = read_u32(cur, build).res]
       /\ pc' = Unwrap(read_u32(cur, build), "iw_read_2")
  /\ UNCHANGED <<obj, nops, inp>>

IWRead2 ==
  /\ pc = "iw_read_2"
  /\ \E build \in Builds :
       /\ Call("read_u32", <<>>, read_u32(cur, build))
       /\ out' = [out EXCEPT !.r2 = read_u32(cur, build).res]
       /\ pc' = Unwrap(read_u32(cur, build), "iw_read_3")
  /\ UNCHANGED <<obj, nops, inp>>

IWRead3 ==
  /\ pc = "iw_read_3"
  /\ \E build \in Builds :
       /\ Call("read_string", <<>>, read_string(cur, build))
       /\ out' = [out EXCEPT !.r3 = read_string(cur, build).res]
       /\ pc' = Unwrap(read_string(cur, build), "iw_done")
  /\ UNCHANGED <<obj, nops, inp>>

NextIW ==
  \/ IWWriteA \/ IWWriteB \/ IWWriteS \/ IWSeek \/ IWOverwrite \/ IWMove \/ IWToVec
  \/ IWNewReader \/ IWRead1 \/ IWRead2 \/ IWRead3

SpecItWorks == InitIW /\ [][NextIW]_vars

(***************************************************************************)
(* Properties.                                                             *)
(***************************************************************************)
FixedTypes == {"u8", "u16", "u32", "u64", "i32"}

\* the bytes the round trip's value was encoded to
Written == SubSeq(cur.data, Len(inp.pre) + 1, Len(cur.data))

\* C1: for each fixed-width integer type and every value v of it, writing v
\* and reading at the same position with the matching operation returns v.
C1_FixedWidthRoundTrip ==
  (pc = "rt_done" /\ inp.ty \in FixedTypes)
    => (out.res.kind = "Ok" /\ out.res.value = inp.v)

\* the bytes a sequential read needs: the width of its type, or the count given
Needs ==
  CASE last.op = "read_u8" -> 1
    [] last.op = "read_u16" -> 2
    [] last.op = "read_u32" -> 4
    [] last.op = "read_u64" -> 8
    [] last.op = "read_i32" -> 4
    [] last.op = "read_bytes" -> last.args[1]

\* fewer than need bytes lie between the cursor and the end of the stream
\* (a negative need is a count of 2^64 + need)
FewerRemain(c, need) ==
  need < 0 \/ c.pos < 0 \/ c.pos > Len(c.data) \/ Len(c.data) - c.pos < need

BoundedReads == {"read_u8", "read_u16", "read_u32", "read_u64", "read_i32", "read_bytes"}

\* C2: a read with fewer bytes remaining than it needs returns EndOfStream and
\* leaves the cursor where it was.  Stated for cursors below 2^63, so that a
\* violation does not rest on the wrapped seek of C4.
C2_EndOfStreamKeepsCursor ==
  (obj = "reader" /\ last.op \in BoundedReads /\ last.before.pos >= 0
     /\ FewerRemain(last.before, Needs))
    => (last.res.kind = "EndOfStream" /\ cur.pos = last.before.pos)

\* the base a seek adds its offset to, and the sum
SeekBase ==
  CASE last.args[2] = "Begin" -> 0
    [] last.args[2] = "Current" -> last.before.pos
    [] last.args[2] = "End" -> Len(last.before.data)

SeekTarget == SeekBase + last.args[1]

\* the target is an offset of the u64 range that lies after the end of the stream
SeekBeyondEnd ==
  /\ last.op = "seek"
  /\ IF SeekBase >= 0 THEN SeekTarget >= 0 ELSE SeekTarget < 0
  /\ U64Gt(SeekTarget, Len(last.before.data))

\* the target is a negative absolute offset
SeekNegative == last.op = "seek" /\ SeekBase >= 0 /\ SeekTarget < 0

\* C3 as claimed: the cursor stays within [0, length], and a seek beyond the
\* end is rejected.  Cursors at 2^63 and above come from the wrapped seek of
\* C4 and are left out, so that a violation is this claim's own.
C3_CursorWithinLength ==
  \/ cur.pos < 0
  \/ /\ cur.pos <= Len(cur.data)
     /\ SeekBeyondEnd => (last.res.kind = "IndexOutOfRange" /\ cur.pos = last.before.pos)

SequentialOps ==
  { "read_u8", "read_u16", "read_u32", "read_u64", "read_i32", "read_bytes",
    "read_7bit_int", "read_string",
    "write_u8", "write_u16", "write_u32", "write_u64", "write_i32",
    "write_7bit_int", "write_string", "write_bytes" }

\* C3 as amended: a seek whose target lies beyond the end of the stream (and
\* within the u64 range) is accepted, it returns the target and moves the
\* cursor there; the cursor is within [0, length] after every successful
\* sequential read and after every successful write.
C3_SeekBeyondEndAccepted ==
  /\ SeekBeyondEnd => (last.res = Ok(SeekTarget) /\ cur.pos = SeekTarget)
  /\ (last.op \in SequentialOps /\ IsOk(last.res))
       => (cur.pos >= 0 /\ cur.pos <= Len(cur.data))

\* a reader and a writer each hold a cursor past the end after an accepted
\* seek; the first one is a reader's
C3_Witness ==
  /\ obj = "reader" /\ SeekBeyondEnd /\ last.args = <<2, "End">>
  /\ IsOk(last.res) /\ cur.pos = Len(cur.data) + 2

\* C4: for every origin, a seek to a negative absolute offset fails with
\* IndexOutOfRange carrying the requested offset and does not move the cursor.
C4_NegativeSeekFails ==
  SeekNegative
    => (last.res = IndexOutOfRange(last.args[1]) /\ cur.pos = last.before.pos)

\* the index of v's highest set bit, -1 for zero
TopBit(v) == IF \A i \in DOMAIN v : v[i] = 0 THEN -1
             ELSE CHOOSE i \in DOMAIN v : v[i] = 1 /\ \A j \in DOMAIN v : j > i => v[j] = 0

\* the least number of 7-bit groups that hold v: 1 below 2^7, 2 below 2^14, ...
MinGroups(v) == IF TopBit(v) < 7 THEN 1 ELSE (TopBit(v) \div 7) + 1

\* C5: write_7bit_int(v) then read_7bit_int at the same position returns the
\* same 32-bit pattern; the encoding has the least number of 7-bit groups for
\* v, and 300 encodes to exactly 0xAC, 0x02.
C5_VarintRoundTrip ==
  /\ inp.ty = "7bit" => pc # "rt_ended"
  /\ (pc = "rt_to_vec" /\ inp.ty = "7bit")
       => /\ Len(Written) = MinGroups(inp.v)
          /\ inp.v = Bits(300, 32) => Written = <<172, 2>>
  /\ (pc = "rt_done" /\ inp.ty = "7bit")
       => (out.res.kind = "Ok" /\ out.res.value = inp.v)

C5_Witness ==
  /\ pc = "rt_done" /\ inp.ty = "7bit"
  /\ inp.v = Hex(<<15, 15, 15, 15, 15, 15, 15, 15>>)
  /\ Len(out.data) = Len(inp.pre) + 5
  /\ out.res.kind = "Ok"

\* the cursor is inside the stream
InStream(c) == c.pos >= 0 /\ c.pos <= Len(c.data)

\* the five bytes at the cursor all have their continuation bit set
FiveContinuations(c) ==
  /\ c.pos >= 0 /\ c.pos + 5 <= Len(c.data)
  /\ \A i \in 1..5 : c.data[c.pos + i] >= 128

\* C6: one read_7bit_int returns after consuming at most 5 bytes; when the
\* first five bytes at the cursor all have their continuation bit set it
\* returns IOFailure without reading a sixth.
C6_VarintReadsAtMostFive ==
  (obj = "reader" /\ last.op = "read_7bit_int")
    => /\ InStream(last.before)
            => /\ cur.pos - last.before.pos \in 0..5
               /\ last.res.kind \in {"Ok", "EndOfStream", "IOFailure"}
       /\ FiveContinuations(last.before)
            => (last.res.kind = "IOFailure" /\ cur.pos = last.before.pos + 5)

C6_Witness ==
  /\ obj = "reader" /\ last.op = "read_7bit_int"
  /\ FiveContinuations(last.before)
  /\ Len(cur.data) > last.before.pos + 5
  /\ last.res.kind = "IOFailure"

\* offset and count are in bounds: offset + count <= len()
AtInBounds ==
  /\ last.args[1] >= 0 /\ last.args[2] >= 0
  /\ last.args[1] + last.args[2] <= Len(last.before.data)

\* C7: for any reader state and in-bounds offset and count, read_bytes_at
\* returns the count bytes at [offset, offset + count) and leaves position()
\* as it was before the call.
C7_ReadBytesAtKeepsPosition ==
  (obj = "reader" /\ last.op = "read_bytes_at" /\ AtInBounds)
    => /\ last.res = Ok(SubSeq(last.before.data, last.args[1] + 1,
                               last.args[1] + last.args[2]))
       /\ cur.pos = last.before.pos
       /\ BufferReader_position(cur).res = BufferReader_position(last.before).res

C7_Witness ==
  /\ obj = "reader" /\ last.op = "read_bytes_at" /\ AtInBounds
  /\ last.args = <<2, 2>>
  /\ last.before.pos = 1
  /\ IsOk(last.res) /\ Len(last.res.value) = 2

\* a call ended the program because the machine has no memory for a Vec: a
\* write or a read aborted, or to_vec panicked in its unwrap
EndedForMemory ==
  last.res.kind = "Abort" \/ (last.op = "to_vec" /\ last.res.kind = "Panic")

\* the 7-bit encoding of a length below 2^14
LengthPrefix(n) == IF n < 128 THEN <<n>> ELSE <<128 + (n % 128), n \div 128>>

\* the encoding of a string: the prefix and the UTF-8 bytes
Encoded(str) == LengthPrefix(Len(as_bytes(str))) \o as_bytes(str)

\* the machine with scarce memory has room for n bytes
ScarceHolds(n) == n <= Pow2(ScarceBits)

\* the byte length of a string fits the i32 of its prefix: it is below 2^31
FitsI32(str) == DivPow2(Len(as_bytes(str)), 31) = 0

\* what the scenario yields: the overwrite at offset 0 changes bytes [0, 4)
\* only (cursor at 4, same length, every byte from offset 4 on unchanged),
\* to_vec returns the whole content wherever the cursor is, and the fresh
\* reader reads c, b, s in that order
IWYields ==
  /\ pc = "iw_move"
       => /\ cur.pos = 4
          /\ Len(cur.data) = Len(out.snap)
          /\ \A i \in 5..Len(out.snap) : cur.data[i] = out.snap[i]
  /\ pc = "iw_new"
       => /\ last.op = "to_vec"
          /\ out.data = last.before.data
          /\ Len(out.data) = Len(out.snap)
  /\ pc = "iw_done"
       => /\ out.r1 = Ok(inp.c)
          /\ out.r2 = Ok(inp.b)
          /\ out.r3 = Ok(inp.s)

RTEncoded ==
  pc = "rt_to_vec"
    => /\ Written = Encoded(inp.v)
       /\ inp.v = <<>> => Written = <<0>>

RTReadBack ==
  /\ out.res.kind = "Ok" /\ out.res.value = inp.v
  /\ cur.pos = Len(inp.pre) + Len(Encoded(inp.v))
  /\ cur.pos = Len(cur.data)

C10_FailedReadRestoresCursor ==
  (obj = "reader" /\ last.op = "read_bytes_at" /\ last.res.kind = "ReadFailure")
    => cur.pos = last.before.pos

====
